---------------------------- MODULE Spec2Model ----------------------------
(***************************************************************************)
(* Fill-in counting for sparse Cholesky (apps/NDReorder/count_nnz_fillin.h) *)
(*                                                                         *)
(* Route (a): count_nnz_fillin(const rxmesh::SparseMatrix<T>&), the        *)
(*            elimination-tree pass over a compressed-row pattern.         *)
(* Route (b): count_nnz_fillin(const EigeMatT&, std::vector<I>&, string),  *)
(*            permute, factorize with Eigen::SimplicialLLT, read nnz(L).   *)
(*                                                                         *)
(* Arrays keep the code's 0-based indices: an array of length k is a       *)
(* function with domain 0..k-1.  A pattern is a set of <<row, col>> pairs. *)
(***************************************************************************)
EXTENDS Integers, FiniteSets, Sequences

VARIABLES
    \* route (a): the argument and the locals of count_nnz_fillin(mat)
    size, row_ptr, col_idx, parent, nonZerosPerCol, tags, nnz, r, i, end, c,
    pc, result,
    \* route (b): the arguments, the locals and the solver of
    \* count_nnz_fillin(eigen_mat, h_permute)
    eigen_mat, h_permute, perm, permuted_mat, info, factorNnz, solverCalls,
    pcb, ret

varsA == <<size, row_ptr, col_idx, parent, nonZerosPerCol, tags, nnz, r, i,
           end, c, pc, result>>
varsB == <<eigen_mat, h_permute, perm, permuted_mat, info, factorNnz,
           solverCalls, pcb, ret>>
vars == <<varsA, varsB>>

(***************************************************************************)
(* Bounds of the model.                                                    *)
(***************************************************************************)
\* largest dimension of the symmetric patterns given to route (a)
MaxN == 4
\* largest dimension and number of stored entries of the arbitrary
\* compressed-row inputs given to route (a)
MaxCsrN == 3
MaxCsrNnz == 3
\* largest dimension of the patterns and permutations given to route (b)
MaxPermN == 3

(***************************************************************************)
(* Patterns, permutations and the compressed-row layout.                   *)
(***************************************************************************)
Idx(n) == 0 .. (n - 1)

Mirror(P) == {<<e[2], e[1]>> : e \in P}

LowerPos(n) == {e \in Idx(n) \X Idx(n) : e[2] < e[1]}

DiagPos(n) == {<<k, k>> : k \in Idx(n)}

\* the stored diagonals: the first m diagonal entries, m = 0..n
DiagPrefixes(n) == {{<<k, k>> : k \in Idx(m)} : m \in 0 .. n}

\* the structurally symmetric n x n patterns: any set of off-diagonal pairs,
\* none, some or all of the diagonal stored
SymPatterns(n) ==
    {L \cup Mirror(L) \cup D : L \in SUBSET LowerPos(n), D \in DiagPrefixes(n)}

\* the bijections over 0..n-1
Bijections(n) ==
    {p \in [Idx(n) -> Idx(n)] : \A a, b \in Idx(n) : a # b => p[a] # p[b]}

Identity(n) == [k \in Idx(n) |-> k]

Inverse(p) == [k \in DOMAIN p |-> CHOOSE a \in DOMAIN p : p[a] = k]

\* position of entry e in row-major order, columns ascending within a row
Rank(P, e) ==
    Cardinality({f \in P : f[1] < e[1] \/ (f[1] = e[1] /\ f[2] < e[2])})

\* the compressed-row matrix (rows(), row_ptr(), col_idx()) storing pattern P
ToCSR(P, n) ==
    [rows    |-> n,
     row_ptr |-> [k \in 0 .. n |-> Cardinality({f \in P : f[1] < k})],
     col_idx |-> [k \in Idx(Cardinality(P)) |->
                     (CHOOSE e \in P : Rank(P, e) = k)[2]]]

\* the pattern a compressed-row matrix stores
PatternOf(mat) ==
    {<<x[1], mat.col_idx[x[2]]>> : x \in
        {y \in Idx(mat.rows) \X DOMAIN mat.col_idx :
            mat.row_ptr[y[1]] <= y[2] /\ y[2] < mat.row_ptr[y[1] + 1]}}

\* the data-model invariant of a compressed-row matrix
ValidCSR(mat) ==
    /\ mat.rows \in Nat
    /\ DOMAIN mat.row_ptr = 0 .. mat.rows
    /\ mat.row_ptr[0] = 0
    /\ DOMAIN mat.col_idx = Idx(mat.row_ptr[mat.rows])
    /\ \A k \in Idx(mat.rows) : mat.row_ptr[k] <= mat.row_ptr[k + 1]
    /\ \A j \in DOMAIN mat.col_idx : mat.col_idx[j] \in Idx(mat.rows)

\* every compressed-row matrix of dimension n with k stored entries, rows in
\* any column order, repeated entries allowed
CsrMatrices(n, k) ==
    {[rows |-> n, row_ptr |-> rp, col_idx |-> ci] :
        rp \in {f \in [0 .. n -> 0 .. k] :
                   /\ f[0] = 0
                   /\ f[n] = k
                   /\ \A a \in Idx(n) : f[a] <= f[a + 1]},
        ci \in [Idx(k) -> Idx(n)]}

(***************************************************************************)
(* Route (a): count_nnz_fillin(const rxmesh::SparseMatrix<T>& mat).        *)
(* The call's state is a record; every step of the loops is an operator on *)
(* it, the actions apply the step enabled at the current position, and the *)
(* whole call is the iteration of the steps.                               *)
(*   pc = "row"    at the head of  for (r ...)           line 129          *)
(*   pc = "entry"  at the head of  for (i ...)           line 138          *)
(*   pc = "walk"   at the head of  for (; tags[c] != r)  line 143          *)
(*   pc = "done"   after the return                      line 157          *)
(***************************************************************************)
\* lines 122-127: the vectors are value-initialised, nnz = 0, r = 0
EnterA(mat) ==
    [size |-> mat.rows, row_ptr |-> mat.row_ptr, col_idx |-> mat.col_idx,
     parent |-> [k \in Idx(mat.rows) |-> 0],
     nonZerosPerCol |-> [k \in Idx(mat.rows) |-> 0],
     tags |-> [k \in Idx(mat.rows) |-> 0],
     nnz |-> 0, r |-> 0, i |-> 0, end |-> 0, c |-> 0,
     pc |-> "row", result |-> 0]

\* lines 131-136
RowStartStep(s) ==
    [s EXCEPT !.parent[s.r] = -1,
              !.tags[s.r] = s.r,
              !.nonZerosPerCol[s.r] = 0,
              !.i = s.row_ptr[s.r],
              !.end = s.row_ptr[s.r + 1],
              !.pc = "entry"]

\* line 141
IsLower(col, row) == col < row

\* lines 138-141, the entry is left of the diagonal: start the walk at c
EntryLowerStep(s) == [s EXCEPT !.c = s.col_idx[s.i], !.pc = "walk"]

\* lines 138-141, the entry is on or right of the diagonal: next entry
EntrySkipStep(s) == [s EXCEPT !.c = s.col_idx[s.i], !.i = s.i + 1]

\* line 138 exit, line 129 ++r
RowEndStep(s) == [s EXCEPT !.r = s.r + 1, !.pc = "row"]

\* a variant of FindParent that drops the test of line 145
FindParentOverwrite(p, row) == row

\* lines 145-146: the parent of the node after the body's first statement
FindParent(p, row) == IF p = -1 THEN row ELSE p

\* a variant of MarkVisited that drops the assignment of line 149
MarkVisitedStale(tag, row) == tag

\* line 149: the tag of the node after the body
MarkVisited(tag, row) == row

\* a variant of WalkStep that leaves the walk for the current row after one
\* node instead of climbing to parent[c]
WalkStepNoClimb(s) ==
    LET p == FindParent(s.parent[s.c], s.r)
    IN  [s EXCEPT !.parent[s.c] = p,
                  !.nonZerosPerCol[s.c] = s.nonZerosPerCol[s.c] + 1,
                  !.nnz = s.nnz + 1,
                  !.tags[s.c] = MarkVisited(s.tags[s.c], s.r),
                  !.c = s.r]

\* a variant of WalkStep without the two statements of lines 145-146
WalkStepNoParent(s) ==
    [s EXCEPT !.nonZerosPerCol[s.c] = s.nonZerosPerCol[s.c] + 1,
              !.nnz = s.nnz + 1,
              !.tags[s.c] = MarkVisited(s.tags[s.c], s.r),
              !.c = s.parent[s.c]]

\* lines 143-150: one iteration of the walk, then c = parent[c]
WalkStep(s) ==
    LET p == FindParent(s.parent[s.c], s.r)
    IN  [s EXCEPT !.parent[s.c] = p,
                  !.nonZerosPerCol[s.c] = s.nonZerosPerCol[s.c] + 1,
                  !.nnz = s.nnz + 1,
                  !.tags[s.c] = MarkVisited(s.tags[s.c], s.r),
                  !.c = p]

\* line 143 exit, line 138 ++i
WalkStopStep(s) == [s EXCEPT !.i = s.i + 1, !.pc = "entry"]

\* variants of ReturnValue: the doubling dropped, the diagonal dropped
ReturnLowerOnly(count, rows) == count + rows

ReturnNoDiagonal(count, rows) == 2 * count

\* line 157
ReturnValue(count, rows) == 2 * count + rows

ReturnStep(s) == [s EXCEPT !.result = ReturnValue(s.nnz, s.size), !.pc = "done"]

\* the conditions of the three loops
CanRowStart(s) == s.pc = "row" /\ s.r < s.size
CanReturn(s) == s.pc = "row" /\ ~(s.r < s.size)
CanEntryLower(s) ==
    s.pc = "entry" /\ s.i < s.end /\ IsLower(s.col_idx[s.i], s.r)
CanEntrySkip(s) ==
    s.pc = "entry" /\ s.i < s.end /\ ~IsLower(s.col_idx[s.i], s.r)
CanRowEnd(s) == s.pc = "entry" /\ ~(s.i < s.end)
\* tags[c] is read: an index outside the vector is undefined behaviour, from
\* which the model takes no step
CanWalk(s) == s.pc = "walk" /\ s.c \in Idx(s.size) /\ s.tags[s.c] # s.r
CanWalkStop(s) == s.pc = "walk" /\ s.c \in Idx(s.size) /\ s.tags[s.c] = s.r

\* the step enabled in s
StepA(s) ==
    CASE CanRowStart(s)   -> RowStartStep(s)
      [] CanReturn(s)     -> ReturnStep(s)
      [] CanEntryLower(s) -> EntryLowerStep(s)
      [] CanEntrySkip(s)  -> EntrySkipStep(s)
      [] CanRowEnd(s)     -> RowEndStep(s)
      [] CanWalk(s)       -> WalkStep(s)
      [] CanWalkStop(s)   -> WalkStopStep(s)
      [] OTHER            -> s

RECURSIVE RunA(_)
RunA(s) == IF StepA(s) = s THEN s ELSE RunA(StepA(s))

\* count_nnz_fillin(mat): the value the call returns
count_nnz_fillin(mat) == RunA(EnterA(mat)).result

\* the number of off-diagonal entries of L found by the pass (the local nnz)
SymbolicNnz(mat) == RunA(EnterA(mat)).nnz

\* the state of the call as a record, and the assignment of a record to it
CurA ==
    [size |-> size, row_ptr |-> row_ptr, col_idx |-> col_idx,
     parent |-> parent, nonZerosPerCol |-> nonZerosPerCol, tags |-> tags,
     nnz |-> nnz, r |-> r, i |-> i, end |-> end, c |-> c,
     pc |-> pc, result |-> result]

SetA(s) ==
    /\ size' = s.size
    /\ row_ptr' = s.row_ptr
    /\ col_idx' = s.col_idx
    /\ parent' = s.parent
    /\ nonZerosPerCol' = s.nonZerosPerCol
    /\ tags' = s.tags
    /\ nnz' = s.nnz
    /\ r' = s.r
    /\ i' = s.i
    /\ end' = s.end
    /\ c' = s.c
    /\ pc' = s.pc
    /\ result' = s.result

StartA(s) ==
    /\ size = s.size
    /\ row_ptr = s.row_ptr
    /\ col_idx = s.col_idx
    /\ parent = s.parent
    /\ nonZerosPerCol = s.nonZerosPerCol
    /\ tags = s.tags
    /\ nnz = s.nnz
    /\ r = s.r
    /\ i = s.i
    /\ end = s.end
    /\ c = s.c
    /\ pc = s.pc
    /\ result = s.result

RowStart == CanRowStart(CurA) /\ SetA(RowStartStep(CurA)) /\ UNCHANGED varsB
EntryLower == CanEntryLower(CurA) /\ SetA(EntryLowerStep(CurA)) /\ UNCHANGED varsB
EntrySkip == CanEntrySkip(CurA) /\ SetA(EntrySkipStep(CurA)) /\ UNCHANGED varsB
Walk == CanWalk(CurA) /\ SetA(WalkStep(CurA)) /\ UNCHANGED varsB
WalkStop == CanWalkStop(CurA) /\ SetA(WalkStopStep(CurA)) /\ UNCHANGED varsB
RowEnd == CanRowEnd(CurA) /\ SetA(RowEndStep(CurA)) /\ UNCHANGED varsB
Return == CanReturn(CurA) /\ SetA(ReturnStep(CurA)) /\ UNCHANGED varsB

NextA ==
    \/ RowStart
    \/ EntryLower
    \/ EntrySkip
    \/ Walk
    \/ WalkStop
    \/ RowEnd
    \/ Return

\* a 0 x 0 matrix
EmptyMat == [rows |-> 0, nz |-> {}]

\* route (b) is not running
IdleB ==
    /\ eigen_mat = EmptyMat
    /\ h_permute = <<>>
    /\ perm = <<>>
    /\ permuted_mat = EmptyMat
    /\ info = "Success"
    /\ factorNnz = 0
    /\ solverCalls = <<>>
    /\ pcb = "idle"
    /\ ret = 0

\* route (a) on every structurally symmetric pattern of dimension <= MaxN
InitSym ==
    /\ \E n \in 0 .. MaxN : \E P \in SymPatterns(n) : StartA(EnterA(ToCSR(P, n)))
    /\ IdleB

SpecSym == InitSym /\ [][NextA]_vars

(***************************************************************************)
(* Route (b): count_nnz_fillin(eigen_mat, h_permute, st).                  *)
(* An Eigen matrix is a record [rows, nz], nz its set of stored positions. *)
(*   pcb = "perm"     before the loop of lines 67-69                       *)
(*   pcb = "permute"  before permute_symm_to_fullsymm, line 73             *)
(*   pcb = "analyze"  before solver.analyzePattern, line 88                *)
(*   pcb = "compute"  before solver.compute, line 89                       *)
(*   pcb = "check"    before the test of solver.info(), line 92            *)
(*   pcb = "done"     after a return, line 97 or 101                       *)
(***************************************************************************)
\* a variant of BuildPermIndices that stores the inverse map
BuildPermScatter(h) == [k \in DOMAIN h |-> CHOOSE a \in DOMAIN h : h[a] = k]

\* a variant of BuildPermIndices whose loop stops one index early, the last
\* index left at 0
BuildPermShort(h) ==
    [k \in DOMAIN h |-> IF \A j \in DOMAIN h : j <= k THEN 0 ELSE h[k]]

\* lines 65-69: perm.indices()[i] = h_permute[i]
BuildPermIndices(h) == [k \in DOMAIN h |-> h[k]]

\* lines 71-74: Eigen::internal::permute_symm_to_fullsymm<Eigen::Lower, false>
\* reads the stored entries (row, col) with row >= col and writes each at
\* (p[row], p[col]) and, off the diagonal, at (p[col], p[row]): p[k] is the
\* position index k moves to.
PermuteSymmToFullSymm(mat, p) ==
    LET low == {e \in mat.nz : e[1] >= e[2]}
    IN  [rows |-> mat.rows,
         nz   |-> {<<p[e[1]], p[e[2]]>> : e \in low} \cup
                  {<<p[e[2]], p[e[1]]>> : e \in low}]

\* line 88 and lines 100-111: analyzePattern runs the elimination-tree pass
\* (the one route (a) was taken from, lines 114-118) on the lower triangle
\* and allots L one diagonal entry per column plus the entries it found, so
\* matrixL().nestedExpression().nonZeros() is lower_nnz + rows.
FactorNonZeros(mat) ==
    LET low == {e \in mat.nz : e[1] >= e[2]}
    IN  SymbolicNnz(ToCSR(low \cup Mirror(low), mat.rows)) + mat.rows

\* the statuses SimplicialLLT reports after compute
ComputationInfo == {"Success", "NumericalIssue"}

\* a variant of Failed that never reports a failure
FailedNever(st) == FALSE

\* line 92
Failed(st) == st # "Success"

BuildPerm ==
    /\ pcb = "perm"
    /\ perm' = BuildPermIndices(h_permute)
    /\ pcb' = "permute"
    /\ UNCHANGED <<eigen_mat, h_permute, permuted_mat, info, factorNnz,
                   solverCalls, ret>>
    /\ UNCHANGED varsA

PermuteSymm ==
    /\ pcb = "permute"
    /\ permuted_mat' = PermuteSymmToFullSymm(eigen_mat, perm)
    /\ pcb' = "analyze"
    /\ UNCHANGED <<eigen_mat, h_permute, perm, info, factorNnz, solverCalls,
                   ret>>
    /\ UNCHANGED varsA

AnalyzePattern ==
    /\ pcb = "analyze"
    /\ factorNnz' = FactorNonZeros(permuted_mat)
    /\ info' = "Success"
    /\ solverCalls' = Append(solverCalls, "analyzePattern")
    /\ pcb' = "compute"
    /\ UNCHANGED <<eigen_mat, h_permute, perm, permuted_mat, ret>>
    /\ UNCHANGED varsA

\* the numeric factorization succeeds or not depending on the values, which
\* the pattern does not determine
Compute ==
    /\ pcb = "compute"
    /\ \E st \in ComputationInfo : info' = st
    /\ solverCalls' = Append(solverCalls, "compute")
    /\ pcb' = "check"
    /\ UNCHANGED <<eigen_mat, h_permute, perm, permuted_mat, factorNnz, ret>>
    /\ UNCHANGED varsA

\* lines 92-98
ReturnFailure ==
    /\ pcb = "check"
    /\ Failed(info)
    /\ ret' = -1
    /\ pcb' = "done"
    /\ UNCHANGED <<eigen_mat, h_permute, perm, permuted_mat, info, factorNnz,
                   solverCalls>>
    /\ UNCHANGED varsA

\* lines 100-101
ReturnNonZeros ==
    /\ pcb = "check"
    /\ ~Failed(info)
    /\ solverCalls' = Append(solverCalls, "matrixL")
    /\ ret' = factorNnz
    /\ pcb' = "done"
    /\ UNCHANGED <<eigen_mat, h_permute, perm, permuted_mat, info, factorNnz>>
    /\ UNCHANGED varsA

NextB ==
    \/ BuildPerm
    \/ PermuteSymm
    \/ AnalyzePattern
    \/ Compute
    \/ ReturnFailure
    \/ ReturnNonZeros

\* route (a) is not running
IdleA == StartA([EnterA(ToCSR({}, 0)) EXCEPT !.pc = "idle"])

\* the entries of P an Eigen matrix stores: both triangles, or the lower one
Storages(P) == {P, {e \in P : e[1] >= e[2]}}

\* route (b) entered with matrix mat and permutation h
StartB(mat, h) ==
    /\ eigen_mat = mat
    /\ h_permute = h
    /\ perm = <<>>
    /\ permuted_mat = EmptyMat
    /\ info = "Success"
    /\ factorNnz = 0
    /\ solverCalls = <<>>
    /\ pcb = "perm"
    /\ ret = 0

\* route (b) on every symmetric pattern of dimension <= MaxPermN, stored in
\* full or as its lower triangle, with every permutation
InitPerm ==
    /\ \E n \in 0 .. MaxPermN : \E P \in SymPatterns(n) :
         \E S \in Storages(P) : \E h \in Bijections(n) :
            StartB([rows |-> n, nz |-> S], h)
    /\ IdleA

SpecPerm == InitPerm /\ [][NextB]_vars

\* route (a) on every compressed-row matrix that meets the data-model
\* invariant, symmetric or not, of dimension <= MaxCsrN with <= MaxCsrNnz
\* stored entries
InitCsr ==
    /\ \E n \in 0 .. MaxCsrN : \E k \in 0 .. MaxCsrNnz :
         \E mat \in CsrMatrices(n, k) : StartA(EnterA(mat))
    /\ IdleB

SpecCsr == InitCsr /\ [][NextA]_vars

\* the call is sequential code: a step that can be taken is taken
FairSpecCsr == SpecCsr /\ WF_vars(NextA)

\* the 4-node path: the diagonal and (0,1),(1,0),(1,2),(2,1),(2,3),(3,2)
PathMat ==
    [rows |-> 4,
     nz   |-> {<<0, 0>>, <<1, 1>>, <<2, 2>>, <<3, 3>>, <<0, 1>>, <<1, 0>>,
               <<1, 2>>, <<2, 1>>, <<2, 3>>, <<3, 2>>}]

\* the fill-in count of route (a) for matrix mat permuted by p
CountPermuted(mat, p) ==
    LET pm == PermuteSymmToFullSymm(mat, BuildPermIndices(p))
    IN  count_nnz_fillin(ToCSR(pm.nz, pm.rows))

\* route (a) on the 4-node path permuted by every permutation of 0..3
InitPath ==
    /\ \E p \in Bijections(PathMat.rows) :
         LET pm == PermuteSymmToFullSymm(PathMat, BuildPermIndices(p))
         IN  StartA(EnterA(ToCSR(pm.nz, pm.rows)))
    /\ IdleB

SpecPath == InitPath /\ [][NextA]_vars

(***************************************************************************)
(* The elimination game, the reference the counts are compared with:       *)
(* eliminating vertex k makes its higher-numbered neighbours a clique.     *)
(***************************************************************************)
RECURSIVE EliminationGame(_, _, _)
EliminationGame(E, k, n) ==
    IF k >= n
    THEN E
    ELSE LET N == {a \in Idx(n) : a > k /\ <<a, k>> \in E}
         IN  EliminationGame(E \cup {e \in N \X N : e[1] # e[2]}, k + 1, n)

\* the strictly-lower positions of the Cholesky factor of pattern P
LFactor(P, n) ==
    {e \in EliminationGame(P \ DiagPos(n), 0, n) : e[2] < e[1]}

\* the smallest row in (v, last] with L(row, v) nonzero, -1 when there is none
EtreeParent(L, v, last) ==
    LET S == {k \in (v + 1) .. last : <<k, v>> \in L}
    IN  IF S = {} THEN -1 ELSE CHOOSE k \in S : \A j \in S : k <= j

\* the matrix the running call of route (a) was given
CurMat == [rows |-> size, row_ptr |-> row_ptr, col_idx |-> col_idx]

CurPattern == PatternOf(CurMat)

CurL == LFactor(CurPattern, size)

\* the stored entries are only diagonal entries
DiagonalOnly == CurPattern \subseteq DiagPos(size)

(***************************************************************************)
(* Claims about route (a) on symmetric patterns (SpecSym).                 *)
(***************************************************************************)
\* C1: on a structurally symmetric pattern, count_nnz_fillin(mat) returns
\* 2*s + n, s the number of strictly-lower nonzeros of the factor L that the
\* elimination game in the order 0..n-1 produces.
C1_ReturnsTwiceLowerPlusDiag ==
    pc = "done" => result = 2 * Cardinality(CurL) + size

\* the call returned on a pattern whose factor has fill
C1_Witness ==
    /\ pc = "done"
    /\ \E e \in CurL : e \notin CurPattern
    /\ result = 2 * Cardinality(CurL) + size

\* C4: the count returned is at least the number k of stored entries (both
\* triangles and the diagonal) of the symmetric pattern.
C4_AtLeastStored ==
    pc = "done" => result >= Cardinality(CurPattern)

\* the call returned more than k on a pattern with off-diagonal entries and
\* a fully stored diagonal
C4_Witness ==
    /\ pc = "done"
    /\ DiagPos(size) \subseteq CurPattern
    /\ Cardinality(CurPattern) > size
    /\ result > Cardinality(CurPattern)

\* C9: on a pattern whose only stored entries are diagonal entries the call
\* returns exactly n, for every n >= 0.
C9_DiagonalOnlyReturnsN ==
    pc = "done" /\ DiagonalOnly => result = size

\* the call returned n on a diagonal pattern of dimension >= 2
C9_Witness ==
    /\ pc = "done"
    /\ size >= 2
    /\ CurPattern = DiagPos(size)
    /\ result = size

\* the rows 0..r-1 are finished: the call stands between two rows or is over
RowsFinished == pc \in {"row", "done"}

C10_EtreeState ==
    RowsFinished =>
        \A v \in Idx(r) : parent[v] = EtreeParent(CurL, v, r - 1)

C10_ParentStable ==
    \A v \in Idx(r) : parent[v] # -1 => parent'[v] = parent[v]

\* C10: once rows 0..r are finished, parent[v] of every v <= r is -1 when no
\* row in (v, r] has L(row, v) nonzero and the smallest such row otherwise,
\* and a parent set to a row index is never changed afterwards.
C10_EliminationTree == [](C10_EtreeState) /\ [][C10_ParentStable]_vars

\* rows are finished and some parent is a fill position of L, not a stored
\* entry
C10_Witness ==
    /\ RowsFinished
    /\ \E v \in Idx(r) :
          /\ parent[v] # -1
          /\ parent[v] = EtreeParent(CurL, v, r - 1)
          /\ <<parent[v], v>> \notin CurPattern

(***************************************************************************)
(* Claims about route (a) on arbitrary valid input (FairSpecCsr).          *)
(***************************************************************************)
\* the walk stands at a node inside the vectors
C7_WalkInRange == pc = "walk" => c \in Idx(size)

\* the call has returned an integer >= n
C7_Returned == pc = "done" /\ result \in Int /\ result >= size

\* C7: on every compressed-row matrix meeting the data-model invariant
\* every walk stays at indices in [0, n), so it never follows a parent of
\* -1, and reaches a node tagged r; the call terminates and returns an
\* integer >= n.
C7_Total == [](ValidCSR(CurMat) /\ C7_WalkInRange) /\ <>C7_Returned

\* a walk has climbed from its start to a parent set by an earlier row
C7_Witness ==
    /\ pc = "walk"
    /\ c # col_idx[i]
    /\ c < r
    /\ tags[c] # r

(***************************************************************************)
(* Claims about route (a) on the permuted 4-node path (SpecPath).          *)
(***************************************************************************)
\* C8: two permutations of 0..3 give the 4-node path fill-in counts of
\* which one is strictly smaller than the other: whatever permutation the
\* call was run with, some permutation gives a strictly smaller or a
\* strictly larger count than it returned.
C8_PermutationSensitive ==
    pc = "done" =>
        \E p2 \in Bijections(PathMat.rows) :
            \/ result < CountPermuted(PathMat, p2)
            \/ CountPermuted(PathMat, p2) < result

\* the call returned, on a permuted path, more than the natural order gives
C8_Witness ==
    /\ pc = "done"
    /\ result > CountPermuted(PathMat, Identity(PathMat.rows))

(***************************************************************************)
(* Claims about route (b) (SpecPerm).                                      *)
(***************************************************************************)
\* the matrix has been permuted
Permuted == pcb \in {"analyze", "compute", "check", "done"}

\* the stored lower triangle of the input, with its mirror
InputSym ==
    LET low == {e \in eigen_mat.nz : e[1] >= e[2]}
    IN  low \cup Mirror(low)

\* C2: when the factorization succeeds route (b) returns what route (a)
\* returns on the permuted pattern (with the identity permutation: on the
\* pattern itself).
C2_RoutesAgree ==
    pcb = "done" /\ info = "Success" =>
        ret = count_nnz_fillin(ToCSR(permuted_mat.nz, permuted_mat.rows))

C5_RelabelRoundTrip ==
    pcb = "analyze" =>
        CountPermuted(permuted_mat, Inverse(h_permute)) =
            CountPermuted(eigen_mat, Identity(eigen_mat.rows))

\* a pattern permuted to a different pattern whose own count differs from
\* the original's
C5_Witness ==
    /\ pcb = "analyze"
    /\ permuted_mat.nz # InputSym
    /\ CountPermuted(permuted_mat, Identity(eigen_mat.rows)) #
           CountPermuted(eigen_mat, Identity(eigen_mat.rows))
    /\ CountPermuted(permuted_mat, Inverse(h_permute)) =
           CountPermuted(eigen_mat, Identity(eigen_mat.rows))

\* C6: route (b) returns -1 exactly when the status after analyzePattern
\* and compute is not Success, without reading the factor; on Success it
\* returns the factor's nonzero count, which is >= 0; the backend is run
\* once.
C6_FailureSentinel ==
    pcb = "done" =>
        /\ (ret = -1) <=> (info # "Success")
        /\ info # "Success" => solverCalls = <<"analyzePattern", "compute">>
        /\ info = "Success" =>
              /\ solverCalls = <<"analyzePattern", "compute", "matrixL">>
              /\ ret = factorNnz
              /\ ret >= 0

\* the backend failed on a nonempty matrix and -1 was returned
C6_Witness ==
    /\ pcb = "done"
    /\ info = "NumericalIssue"
    /\ eigen_mat.rows > 0
    /\ ret = -1

=============================================================================
